---- MODULE Spec2Model ----
(***************************************************************************)
(* Integer validators (src/validators/int.rs) and the ambient validation   *)
(* state (src/validators/validation_state.rs) of pydantic-core.            *)
(*                                                                         *)
(* Option<T> is modelled as a set with at most one element:                *)
(* None == {} and Some(x) == {x}.                                          *)
(***************************************************************************)
EXTENDS Integers, Sequences, FiniteSets, TLC

\* ---------------------------------------------------------------- bounds
\* Coerced integers range over -MaxVal..MaxVal.
MaxVal == 2
\* Largest total handed to add_fields_set (caps the usize counter).
MaxFields == 3
\* Deepest nesting of live rebind_extra handles.
MaxDepth == 2
\* Longest underlying sequence handed to enumerate_last_partial.
MaxLen == 3
\* Configured le/lt/ge/gt bounds are -MaxBound or MaxBound, and multiple_of is
\* -(MaxBound + 1) or MaxBound + 1.
MaxBound == 1

\* ---------------------------------------------------------------- Option
None == {}
Some(x) == {x}
unwrap(o) == CHOOSE x \in o : TRUE
unwrap_or(o, default) == IF o = None THEN default ELSE unwrap(o)
OptionOf(S) == {None} \cup {Some(x) : x \in S}

\* ---------------------------------------------------------------- Exactness
\* enum Exactness { Lax, Strict, Exact }
Exactness == {"Lax", "Strict", "Exact"}

\* Position of a level in the derived Ord (declaration order of the enum).
ExactnessOrd(e) == CASE e = "Lax" -> 0 [] e = "Strict" -> 1 [] e = "Exact" -> 2

\* jiter::PartialMode and PartialMode::is_active
PartialMode == {"Off", "On", "TrailingStrings"}
is_active(mode) == mode # "Off"

\* ---------------------------------------------------------------- Extra
\* The fields of Extra that the state reads: strict, by_alias, by_name.
Extra == [strict : OptionOf(BOOLEAN), by_alias : OptionOf(BOOLEAN), by_name : OptionOf(BOOLEAN)]

\* The Extra values callers hand to ValidationState::new in this model.
InitialExtras ==
    { [strict |-> s, by_alias |-> None, by_name |-> None] : s \in OptionOf(BOOLEAN) }

\* The closures f handed to rebind_extra: each assigns one field of extra.
Closures ==
    { [field |-> "strict", value |-> v] : v \in OptionOf(BOOLEAN) }
    \cup { [field |-> "by_alias", value |-> Some(FALSE)] }

ApplyClosure(f, e) ==
    CASE f.field = "strict" -> [e EXCEPT !.strict = f.value]
      [] f.field = "by_alias" -> [e EXCEPT !.by_alias = f.value]
      [] f.field = "by_name" -> [e EXCEPT !.by_name = f.value]

VARIABLES
    extra,              \* ValidationState.extra
    exactness,          \* ValidationState.exactness : Option<Exactness>
    fields_set_count,   \* ValidationState.fields_set_count : Option<usize>
    allow_partial,      \* ValidationState.allow_partial : PartialMode
    handles,            \* old_extra of each live ValidationStateWithReboundExtra, innermost last
    elp,                \* the EnumerateLastPartial iterator in use, if any
    source,             \* history: the underlying sequence the iterator was built over
    scopes,             \* history: extra as it was just before each live rebind_extra call
    start_exactness,    \* history: exactness when the current run of observations began
    observed,           \* history: levels handed to floor_exactness since then
    yielded,            \* history: the triples the iterator has yielded
    added,              \* history: whether add_fields_set was called, and the total handed to it
    last                \* history: the most recent call and what it returned

vars == <<extra, exactness, fields_set_count, allow_partial, handles, elp,
          source, scopes, start_exactness, observed, yielded, added, last>>

iter_vars == <<elp, source, yielded>>
exactness_history == <<start_exactness, observed>>

\* ---------------------------------------------------------------- ValidationState
\* Variant: a strict default cannot be overridden.
strict_or_forced_by_default(ex, default) == default \/ unwrap_or(ex.strict, FALSE)

\* Variant: the call-site override is not read.
strict_or_ignores_override(ex, default) == default

\* ValidationState::strict_or
strict_or(ex, default) == unwrap_or(ex.strict, default)

\* Variant: every tracked level is replaced by the observation.
floor_exactness_always_assigns(current, obs) ==
    IF current = None THEN current ELSE Some(obs)

\* Variant: Strict is not lowered to Lax.
floor_exactness_keeps_strict(current, obs) ==
    CASE current = None \/ current = Some("Lax") \/ current = Some("Strict") -> current
      [] current = Some("Exact") -> Some(obs)

\* Variant: None is treated as the top of the order.
floor_exactness_tracks_from_none(current, obs) ==
    CASE current = None -> Some(obs)
      [] current = Some("Lax") -> current
      [] current = Some("Strict") -> IF obs = "Lax" THEN Some("Lax") ELSE current
      [] current = Some("Exact") -> Some(obs)

\* ValidationState::floor_exactness, as a function of the current level
floor_exactness(current, obs) ==
    CASE current = None \/ current = Some("Lax") -> current
      [] current = Some("Strict") -> IF obs = "Lax" THEN Some("Lax") ELSE current
      [] current = Some("Exact") -> Some(obs)

\* Variant: extra is cloned after f has run.
rebind_extra_saves_after_f(ex, f) ==
    [extra |-> ApplyClosure(f, ex), old_extra |-> ApplyClosure(f, ex)]

\* ValidationState::rebind_extra: the new extra and the handle's old_extra
rebind_extra(ex, f) ==
    [extra |-> ApplyClosure(f, ex), old_extra |-> ex]

\* Variant: the drop does not swap.
drop_keeps_extra(ex, old_extra) == [extra |-> ex, old_extra |-> old_extra]

\* Drop for ValidationStateWithReboundExtra: mem::swap(state.extra, old_extra)
drop(ex, old_extra) == [extra |-> old_extra, old_extra |-> ex]

NoCall == [op |-> "none"]

\* ValidationState::new(extra, recursion_guard, allow_partial)
new(ex, mode) ==
    /\ extra = ex
    /\ exactness = None
    /\ fields_set_count = None
    /\ allow_partial = mode
    /\ handles = <<>>
    /\ elp = None
    /\ source = <<>>
    /\ scopes = <<>>
    /\ start_exactness = None
    /\ observed = {}
    /\ yielded = <<>>
    /\ added = [called |-> FALSE, total |-> 0]
    /\ last = NoCall

Init == \E ex \in InitialExtras : new(ex, "Off")

\* A caller assigns the public field (a union validator does so before each choice).
SetExactness(e) ==
    /\ exactness' = e
    /\ start_exactness' = e
    /\ observed' = {}
    /\ last' = [op |-> "set_exactness"]
    /\ UNCHANGED <<added, extra, fields_set_count, allow_partial, handles, scopes, iter_vars>>

\* state.floor_exactness(obs)
FloorExactness(obs) ==
    /\ exactness' = floor_exactness(exactness, obs)
    /\ observed' = observed \cup {obs}
    /\ last' = [op |-> "floor_exactness", obs |-> obs]
    /\ UNCHANGED <<added, extra, fields_set_count, allow_partial, handles, scopes,
                   start_exactness, iter_vars>>

\* What the code run inside the innermost scope returned most recently.
Outcome ==
    CASE last.op \in {"IntValidator", "ConstrainedIntValidator"} ->
            IF last.result.err # None THEN "err" ELSE "ok"
      [] last.op = "drop" -> last.inner
      [] OTHER -> "none"

\* let handle = state.rebind_extra(f), also through a live handle (DerefMut)
RebindExtra(f) ==
    /\ Len(handles) < MaxDepth
    /\ LET r == rebind_extra(extra, f)
       IN  /\ extra' = r.extra
           /\ handles' = Append(handles, r.old_extra)
    /\ scopes' = Append(scopes, extra)
    /\ last' = [op |-> "rebind_extra", f |-> f]
    /\ UNCHANGED <<added, exactness, fields_set_count, allow_partial, exactness_history, iter_vars>>

\* The fields of the ValidationState a handle refers to.
State ==
    [extra |-> extra, exactness |-> exactness, fields_set_count |-> fields_set_count,
     allow_partial |-> allow_partial]

\* Variant: the drop puts a newly constructed state around old_extra back.
ValidationStateWithReboundExtra_drop_resets(state, old_extra) ==
    [extra |-> old_extra, exactness |-> None, fields_set_count |-> None,
     allow_partial |-> state.allow_partial]

\* Drop for ValidationStateWithReboundExtra, on the state the handle refers to:
\* only extra is swapped.
ValidationStateWithReboundExtra_drop(state, old_extra) ==
    [state EXCEPT !.extra = drop(state.extra, old_extra).extra]

\* The innermost handle goes out of scope: on return, on `?` and on unwinding.
DropHandle ==
    /\ handles # <<>>
    /\ LET d == ValidationStateWithReboundExtra_drop(State, handles[Len(handles)])
       IN  /\ extra' = d.extra
           /\ exactness' = d.exactness
           /\ fields_set_count' = d.fields_set_count
           /\ allow_partial' = d.allow_partial
    /\ handles' = SubSeq(handles, 1, Len(handles) - 1)
    /\ scopes' = SubSeq(scopes, 1, Len(scopes) - 1)
    /\ last' = [op |-> "drop", expected |-> scopes[Len(scopes)], rebound |-> extra,
                depth |-> Len(handles), inner |-> Outcome, before |-> State]
    /\ UNCHANGED <<added, exactness_history, iter_vars>>

\* Variant: a call with 0 does not initialise the counter.
add_fields_set_skips_zero(count, n) ==
    IF n = 0 THEN count ELSE Some(unwrap_or(count, 0) + n)

\* ValidationState::add_fields_set: *self.fields_set_count.get_or_insert(0) += n
add_fields_set(count, n) == Some(unwrap_or(count, 0) + n)

\* state.add_fields_set(n), on the state or through a live handle (DerefMut)
AddFieldsSet(n) ==
    /\ added.total + n <= MaxFields
    /\ fields_set_count' = add_fields_set(fields_set_count, n)
    /\ added' = [called |-> TRUE, total |-> added.total + n]
    /\ last' = [op |-> "add_fields_set", n |-> n]
    /\ UNCHANGED <<extra, exactness, allow_partial, handles, scopes, exactness_history,
                   iter_vars>>

\* state.allow_partial = mode, on the state or through a live handle (DerefMut)
SetAllowPartial(mode) ==
    /\ allow_partial' = mode
    /\ last' = [op |-> "set_allow_partial", mode |-> mode]
    /\ UNCHANGED <<added, extra, exactness, fields_set_count, handles, scopes,
                   exactness_history, iter_vars>>

\* ---------------------------------------------------------------- Int
\* crate::input::Int: a machine word or a big integer. The word is scaled down
\* to -WordMax..WordMax so that both variants occur among the model's values.
WordMax == 1

IntOf(n) == [tag |-> IF n \in -WordMax..WordMax THEN "I64" ELSE "Big", val |-> n]
BigIntFrom(n) == [tag |-> "Big", val |-> n]

Abs(n) == IF n < 0 THEN -n ELSE n

\* &Int % &Int: remainder with the sign of the dividend; a big integer as soon
\* as one operand is one.
IntRem(a, b) ==
    LET r == Abs(a.val) % Abs(b.val)
    IN  [tag |-> IF a.tag = "I64" /\ b.tag = "I64" THEN "I64" ELSE "Big",
         val |-> IF a.val < 0 THEN -r ELSE r]

\* PartialEq / PartialOrd of Int compare the numbers across the variants.
IntEq(a, b) == a.val = b.val
IntLt(a, b) == a.val < b.val
IntLe(a, b) == a.val <= b.val
IntGt(a, b) == a.val > b.val
IntGe(a, b) == a.val >= b.val

\* ---------------------------------------------------------------- Input
Values == -MaxVal..MaxVal
BoundValues == {-MaxBound, MaxBound}
\* A zero multiple_of is rejected when the schema is compiled, before build.
Multiples == {-(MaxBound + 1), MaxBound + 1}

\* Input values by shape: a native integer, a float with integral value, a
\* decimal string, a boolean, and values no mode accepts.
Inputs ==
    { [shape |-> sh, val |-> v] : sh \in {"int", "float", "str"}, v \in Values }
    \cup { [shape |-> "bool", val |-> v] : v \in {0, 1} }
    \cup { [shape |-> sh, val |-> 0] : sh \in {"float_frac", "str_bad"} }

\* ValidationMatch<EitherInt>: the coerced integer as the input holds it, and
\* the exactness of the match.
IntMatch(v, e) == [ok |-> Some([value |-> v, exactness |-> e]), err |-> None]
CoercionError(kind) == [ok |-> None, err |-> Some(kind)]

\* Input::validate_int(strict) -> ValResult<ValidationMatch<EitherInt>>
validate_int(input, strict) ==
    CASE input.shape = "int" -> IntMatch(input.val, "Exact")
      [] input.shape = "float" ->
            IF strict THEN CoercionError("int_type") ELSE IntMatch(input.val, "Strict")
      [] input.shape = "str" ->
            IF strict THEN CoercionError("int_type") ELSE IntMatch(input.val, "Lax")
      [] input.shape = "bool" ->
            IF strict THEN CoercionError("int_type") ELSE IntMatch(input.val, "Lax")
      [] input.shape = "float_frac" ->
            IF strict THEN CoercionError("int_type") ELSE CoercionError("int_from_float")
      [] input.shape = "str_bad" ->
            IF strict THEN CoercionError("int_type") ELSE CoercionError("int_parsing")

\* EitherInt::as_int: the Int view of the coerced integer.
as_int(either_int) == IntOf(either_int)

\* ---------------------------------------------------------------- results
\* ValResult<PyObject>: Ok(host integer) or Err(ValError).
Ok(n) == [ok |-> Some(n), err |-> None]
Err(e) == [ok |-> None, err |-> Some(e)]

\* ValError::new(error_type, input)
ValError(kind, bound, input) ==
    [kind |-> kind, bound |-> bound, context |-> None, input |-> input]

\* A coercion error comes from the input and carries no bound.
InputError(kind, input) == [kind |-> kind, bound |-> None, context |-> None, input |-> input]

\* ---------------------------------------------------------------- IntValidator
\* IntValidator::validate: the result, the new state.exactness, the level handed
\* to floor_exactness (if any), the strict flag passed to validate_int and the
\* calls made, in order.
IntValidator_validate(self, input, ex, current) ==
    LET strict == strict_or(ex, self.strict)
        m == validate_int(input, strict)
    IN  IF m.err # None
        THEN [result |-> Err(InputError(unwrap(m.err), input)),
              exactness |-> current,
              unpacked |-> {},
              strict_arg |-> strict,
              calls |-> <<"validate_int">>]
        ELSE [result |-> Ok(unwrap(m.ok).value),
              exactness |-> floor_exactness(current, unwrap(m.ok).exactness),
              unpacked |-> {unwrap(m.ok).exactness},
              strict_arg |-> strict,
              calls |-> <<"validate_int", "unpack">>]

\* ---------------------------------------------------------------- ConstrainedIntValidator
\* Variant: le is checked before multiple_of.
Checks_le_first == <<"le", "multiple_of", "lt", "ge", "gt">>

\* The constraint blocks of ConstrainedIntValidator::validate, in source order.
Checks == <<"multiple_of", "le", "lt", "ge", "gt">>

\* Variant: inclusive and exclusive comparisons are swapped.
fails_exclusive_swapped(name, v, b) ==
    CASE name = "multiple_of" -> ~IntEq(IntRem(v, b), BigIntFrom(0))
      [] name = "le" -> IntGe(v, b)
      [] name = "lt" -> IntGt(v, b)
      [] name = "ge" -> IntLe(v, b)
      [] name = "gt" -> IntLt(v, b)

\* The condition under which each block returns its error.
fails(name, v, b) ==
    CASE name = "multiple_of" -> ~IntEq(IntRem(v, b), BigIntFrom(0))
      [] name = "le" -> IntGt(v, b)
      [] name = "lt" -> IntGe(v, b)
      [] name = "ge" -> IntLt(v, b)
      [] name = "gt" -> IntLe(v, b)

\* Variant: the le and lt blocks build each other's error.
ErrorType_le_lt_swapped(name) ==
    CASE name = "multiple_of" -> "MultipleOf"
      [] name = "le" -> "LessThan"
      [] name = "lt" -> "LessThanEqual"
      [] name = "ge" -> "GreaterThanEqual"
      [] name = "gt" -> "GreaterThan"

\* The ErrorType variant each block builds.
ErrorType(name) ==
    CASE name = "multiple_of" -> "MultipleOf"
      [] name = "le" -> "LessThanEqual"
      [] name = "lt" -> "LessThan"
      [] name = "ge" -> "GreaterThanEqual"
      [] name = "gt" -> "GreaterThan"

\* Lines 85-140: run the blocks from the i-th on; the first that fails returns.
RECURSIVE check_constraints(_, _, _, _, _)
check_constraints(self, int_value, input, i, evaluated) ==
    IF i > Len(Checks)
    THEN [err |-> None, evaluated |-> evaluated]
    ELSE LET name == Checks[i]
             b == self[name]
         IN  IF b = None
             THEN check_constraints(self, int_value, input, i + 1, evaluated)
             ELSE IF fails(name, int_value, unwrap(b))
                  THEN [err |-> Some(ValError(ErrorType(name), Some(unwrap(b).val), input)),
                        evaluated |-> Append(evaluated, name)]
                  ELSE check_constraints(self, int_value, input, i + 1,
                                         Append(evaluated, name))

\* Variant: a refused coercion is recorded in the state as a lax match.
ConstrainedIntValidator_validate_floors_on_error(self, input, ex, current) ==
    LET strict == strict_or(ex, self.strict)
        m == validate_int(input, strict)
    IN  IF m.err # None
        THEN [result |-> Err(InputError(unwrap(m.err), input)),
              exactness |-> floor_exactness(current, "Lax"),
              unpacked |-> {},
              strict_arg |-> strict,
              calls |-> <<"validate_int">>]
        ELSE LET either_int == unwrap(m.ok).value
                 floored == floor_exactness(current, unwrap(m.ok).exactness)
                 int_value == as_int(either_int)
                 c == check_constraints(self, int_value, input, 1, <<>>)
             IN  [result |-> IF c.err # None THEN Err(unwrap(c.err)) ELSE Ok(either_int),
                  exactness |-> floored,
                  unpacked |-> {unwrap(m.ok).exactness},
                  strict_arg |-> strict,
                  calls |-> <<"validate_int", "unpack">> \o c.evaluated]

\* Variant: a coercion refused in strict mode is tried again in lax mode.
ConstrainedIntValidator_validate_retries_lax(self, input, ex, current) ==
    LET strict == strict_or(ex, self.strict)
        first == validate_int(input, strict)
        m == IF first.err # None THEN validate_int(input, FALSE) ELSE first
    IN  IF m.err # None
        THEN [result |-> Err(InputError(unwrap(m.err), input)),
              exactness |-> current,
              unpacked |-> {},
              strict_arg |-> strict,
              calls |-> <<"validate_int">>]
        ELSE LET either_int == unwrap(m.ok).value
                 floored == floor_exactness(current, unwrap(m.ok).exactness)
                 int_value == as_int(either_int)
                 c == check_constraints(self, int_value, input, 1, <<>>)
             IN  [result |-> IF c.err # None THEN Err(unwrap(c.err)) ELSE Ok(either_int),
                  exactness |-> floored,
                  unpacked |-> {unwrap(m.ok).exactness},
                  strict_arg |-> strict,
                  calls |-> <<"validate_int", "unpack">> \o c.evaluated]

\* Variant: the match is unpacked only after the constraints have passed.
ConstrainedIntValidator_validate_unpacks_last(self, input, ex, current) ==
    LET strict == strict_or(ex, self.strict)
        m == validate_int(input, strict)
    IN  IF m.err # None
        THEN [result |-> Err(InputError(unwrap(m.err), input)),
              exactness |-> current,
              unpacked |-> {},
              strict_arg |-> strict,
              calls |-> <<"validate_int">>]
        ELSE LET c == check_constraints(self, as_int(unwrap(m.ok).value), input, 1, <<>>)
             IN  IF c.err # None
                 THEN [result |-> Err(unwrap(c.err)),
                       exactness |-> current,
                       unpacked |-> {},
                       strict_arg |-> strict,
                       calls |-> <<"validate_int">> \o c.evaluated]
                 ELSE [result |-> Ok(unwrap(m.ok).value),
                       exactness |-> floor_exactness(current, unwrap(m.ok).exactness),
                       unpacked |-> {unwrap(m.ok).exactness},
                       strict_arg |-> strict,
                       calls |-> <<"validate_int">> \o c.evaluated \o <<"unpack">>]

\* ConstrainedIntValidator::validate: line 82 coerces and unpacks, line 83 takes
\* the Int view, lines 85-139 check the constraints, line 140 returns.
ConstrainedIntValidator_validate(self, input, ex, current) ==
    LET strict == strict_or(ex, self.strict)
        m == validate_int(input, strict)
    IN  IF m.err # None
        THEN [result |-> Err(InputError(unwrap(m.err), input)),
              exactness |-> current,
              unpacked |-> {},
              strict_arg |-> strict,
              calls |-> <<"validate_int">>]
        ELSE LET either_int == unwrap(m.ok).value
                 floored == floor_exactness(current, unwrap(m.ok).exactness)
                 int_value == as_int(either_int)
                 c == check_constraints(self, int_value, input, 1, <<>>)
             IN  [result |-> IF c.err # None THEN Err(unwrap(c.err)) ELSE Ok(either_int),
                  exactness |-> floored,
                  unpacked |-> {unwrap(m.ok).exactness},
                  strict_arg |-> strict,
                  calls |-> <<"validate_int", "unpack">> \o c.evaluated]

\* ---------------------------------------------------------------- validators in use
IntValidators == [strict : BOOLEAN]

ConstrainedIntValidators ==
    [strict : BOOLEAN,
     multiple_of : OptionOf({IntOf(m) : m \in Multiples}),
     le : OptionOf({IntOf(k) : k \in BoundValues}),
     lt : OptionOf({IntOf(k) : k \in BoundValues}),
     ge : OptionOf({IntOf(k) : k \in BoundValues}),
     gt : OptionOf({IntOf(k) : k \in BoundValues})]

Record(op, self, input, r) ==
    [op |-> op, self |-> self, input |-> input, pre_exactness |-> exactness,
     strict_arg |-> r.strict_arg, calls |-> r.calls, result |-> r.result]

\* IntValidator::validate(py, input, state)
ValidateInt(self, input) ==
    LET r == IntValidator_validate(self, input, extra, exactness)
    IN  /\ exactness' = r.exactness
        /\ observed' = observed \cup r.unpacked
        /\ last' = Record("IntValidator", self, input, r)
        /\ UNCHANGED <<added, extra, fields_set_count, allow_partial, handles, scopes,
                       start_exactness, iter_vars>>

\* ConstrainedIntValidator::validate(py, input, state)
ValidateConstrainedInt(self, input) ==
    LET r == ConstrainedIntValidator_validate(self, input, extra, exactness)
    IN  /\ exactness' = r.exactness
        /\ observed' = observed \cup r.unpacked
        /\ last' = Record("ConstrainedIntValidator", self, input, r)
        /\ UNCHANGED <<added, extra, fields_set_count, allow_partial, handles, scopes,
                       start_exactness, iter_vars>>

\* ---------------------------------------------------------------- EnumerateLastPartial
Items == {"a", "b"}

Sources == UNION { [1..n -> Items] : n \in 0..MaxLen }

\* Iterator::next of the underlying iterator over a finite sequence
iter_next(iter) ==
    IF iter = <<>> THEN [item |-> None, iter |-> iter]
    ELSE [item |-> Some(Head(iter)), iter |-> Tail(iter)]

\* EnumerateLastPartial::new(iter, allow_partial)
EnumerateLastPartial_new(iter, mode) ==
    LET n == iter_next(iter)
    IN  [iter |-> n.iter, index |-> 0, next_item |-> n.item, allow_partial |-> mode]

\* Variant: the flag marks the first item instead of the last.
EnumerateLastPartial_next_flags_first(self) ==
    LET n == iter_next(self.iter)
        a == self.next_item
        replaced == [self EXCEPT !.next_item = n.item, !.iter = n.iter]
    IN  IF a = None
        THEN [self |-> replaced, item |-> None]
        ELSE [self |-> [replaced EXCEPT !.index = self.index + 1],
              item |-> Some(<<self.index,
                              is_active(self.allow_partial) /\ self.index = 0,
                              unwrap(a)>>)]

\* Variant: the triple carries the item just fetched, not the one held.
EnumerateLastPartial_next_yields_fetched(self) ==
    LET n == iter_next(self.iter)
        a == self.next_item
        replaced == [self EXCEPT !.next_item = n.item, !.iter = n.iter]
    IN  IF a = None
        THEN [self |-> replaced, item |-> None]
        ELSE [self |-> [replaced EXCEPT !.index = self.index + 1],
              item |-> Some(<<self.index,
                              is_active(self.allow_partial) /\ replaced.next_item = None,
                              unwrap_or(n.item, unwrap(a))>>)]

\* EnumerateLastPartial::next: the iterator afterwards and the item returned
EnumerateLastPartial_next(self) ==
    LET n == iter_next(self.iter)
        a == self.next_item
        replaced == [self EXCEPT !.next_item = n.item, !.iter = n.iter]
    IN  IF a = None
        THEN [self |-> replaced, item |-> None]
        ELSE [self |-> [replaced EXCEPT !.index = self.index + 1],
              item |-> Some(<<self.index,
                              is_active(self.allow_partial) /\ replaced.next_item = None,
                              unwrap(a)>>)]

\* state.enumerate_last_partial(iter)
EnumerateLastPartial(iter) ==
    /\ elp = None
    /\ elp' = Some(EnumerateLastPartial_new(iter, allow_partial))
    /\ source' = iter
    /\ yielded' = <<>>
    /\ last' = [op |-> "enumerate_last_partial"]
    /\ UNCHANGED <<added, extra, exactness, fields_set_count, allow_partial, handles, scopes,
                   exactness_history>>

\* One call of next() on the iterator; calls after the end return None again.
Next_item ==
    /\ elp # None
    /\ LET r == EnumerateLastPartial_next(unwrap(elp))
       IN  /\ elp' = Some(r.self)
           /\ yielded' = IF r.item = None THEN yielded ELSE Append(yielded, unwrap(r.item))
           /\ last' = [op |-> "next", item |-> r.item]
    /\ UNCHANGED <<added, extra, exactness, fields_set_count, allow_partial, handles, scopes,
                   exactness_history, source>>

\* Iterator::size_hint of the underlying iterator over a finite sequence: the
\* exact number of items left, as lower and as upper bound
iter_size_hint(iter) == <<Len(iter), Some(Len(iter))>>

\* EnumerateLastPartial::size_hint
EnumerateLastPartial_size_hint(self) == iter_size_hint(self.iter)

\* One call of size_hint() on the iterator.
Size_hint ==
    /\ elp # None
    /\ last' = [op |-> "size_hint", hint |-> EnumerateLastPartial_size_hint(unwrap(elp))]
    /\ UNCHANGED <<added, extra, exactness, fields_set_count, allow_partial, handles, scopes,
                   exactness_history, iter_vars>>

\* ---------------------------------------------------------------- specifications
\* The validators run inside rebinding scopes.
ScopeInputs == { i \in Inputs : i.shape \in {"int", "str"} /\ i.val \in {0, 1} }
ScopeValidators ==
    { v \in ConstrainedIntValidators :
        /\ v.multiple_of = None /\ v.le = None /\ v.lt = None /\ v.gt = None
        /\ v.ge = Some(IntOf(1)) }

Next ==
    \/ \E f \in Closures : RebindExtra(f)
    \/ DropHandle
    \/ \E self \in IntValidators, input \in ScopeInputs : ValidateInt(self, input)
    \/ \E self \in ScopeValidators, input \in ScopeInputs : ValidateConstrainedInt(self, input)

Spec == Init /\ [][Next]_vars

\* Exactness tracking: a caller sets the level, validators and callers floor it.
NextExactness ==
    \/ \E e \in OptionOf(Exactness) : SetExactness(e)
    \/ \E obs \in Exactness : FloorExactness(obs)
    \/ \E self \in IntValidators, input \in ScopeInputs : ValidateInt(self, input)
    \/ \E self \in ScopeValidators, input \in ScopeInputs : ValidateConstrainedInt(self, input)

SpecExactness == Init /\ [][NextExactness]_vars

\* One validation from each state a caller can hand over.
InitInt ==
    /\ extra \in InitialExtras
    /\ exactness \in OptionOf(Exactness)
    /\ fields_set_count = None
    /\ allow_partial = "Off"
    /\ handles = <<>>
    /\ elp = None
    /\ source = <<>>
    /\ scopes = <<>>
    /\ start_exactness = exactness
    /\ observed = {}
    /\ yielded = <<>>
    /\ added = [called |-> FALSE, total |-> 0]
    /\ last = NoCall

NextInt ==
    \/ \E self \in IntValidators, input \in Inputs :
          last.op = "none" /\ ValidateInt(self, input)
    \/ \E self \in ConstrainedIntValidators, input \in Inputs :
          last.op = "none" /\ ValidateConstrainedInt(self, input)

SpecInt == InitInt /\ [][NextInt]_vars

\* Iteration over a sequence in each partial mode.
NextIter ==
    \/ \E iter \in Sources : EnumerateLastPartial(iter)
    \/ Next_item
    \/ Size_hint

InitIter == \E ex \in InitialExtras, mode \in PartialMode : new(ex, mode)

SpecIter == InitIter /\ [][NextIter]_vars

\* ---------------------------------------------------------------- properties
ValidatorOps == {"IntValidator", "ConstrainedIntValidator"}

\* C1: when a rebinding handle is dropped, extra is again what it was just before
\* the rebind_extra call that made the handle, whatever the closure assigned and
\* whether the code run inside succeeded or failed; in nested scopes the inner
\* drop restores the outer scope's rebound extra and the outer drop the original.
C1_RebindRestoresExtra ==
    /\ last.op = "drop" => extra = last.expected
    /\ Len(handles) = Len(scopes)

\* A nested scope whose closure changed extra and whose body returned an error
\* has just been dropped.
C1_Witness ==
    /\ last.op = "drop"
    /\ last.depth = 2
    /\ last.inner = "err"
    /\ last.rebound # last.expected
    /\ extra = last.expected

\* The lowest of a non-empty set of levels, in the order Lax < Strict < Exact.
MinLevel(S) == CHOOSE e \in S : \A x \in S : ExactnessOrd(e) <= ExactnessOrd(x)

\* C2 as stated: after a non-empty run of floor_exactness calls the recorded
\* level is the minimum of the starting level and the observed levels, a
\* starting level of None counting as the top (so it gives the minimum of the
\* observations).
C2_Original ==
    observed # {} => exactness = Some(MinLevel(observed \cup start_exactness))

\* C2 amended: after a non-empty run of floor_exactness calls the recorded level
\* is the minimum of the starting level and the observed levels when the run
\* started from Some level, and is still None when it started from None.
C2_FloorIsMinWhenTracking ==
    observed # {} =>
        IF start_exactness = None
        THEN exactness = None
        ELSE exactness = Some(MinLevel(observed \cup start_exactness))

\* Tracking started at Exact and two different levels were observed.
C2_Witness ==
    /\ start_exactness = Some("Exact")
    /\ observed = {"Strict", "Lax"}
    /\ exactness = Some("Lax")

\* ---- claims about one validation (SpecInt)
Validated == last.op \in ValidatorOps

\* What the input's validate_int returned to the validator.
Coercion == validate_int(last.input, last.strict_arg)
Coerced == unwrap(Coercion.ok).value

ClaimedOrder == <<"multiple_of", "le", "lt", "ge", "gt">>

Divides(m, v) == \E k \in -Abs(v)..Abs(v) : v = k * m

\* The predicates as the specification states them, on plain integers.
Passes(name, v, k) ==
    CASE name = "multiple_of" -> Divides(k, v)
      [] name = "le" -> v <= k
      [] name = "lt" -> v < k
      [] name = "ge" -> v >= k
      [] name = "gt" -> v > k

KindOf(name) ==
    CASE name = "multiple_of" -> "MultipleOf"
      [] name = "le" -> "LessThanEqual"
      [] name = "lt" -> "LessThan"
      [] name = "ge" -> "GreaterThanEqual"
      [] name = "gt" -> "GreaterThan"

ConstraintKinds == { KindOf(ClaimedOrder[i]) : i \in 1..Len(ClaimedOrder) }

Configured(name) == last.self[name] # None
BoundOf(name) == unwrap(last.self[name]).val

\* Positions, in the claimed order, of the configured predicates the value violates.
Violations ==
    { i \in 1..Len(ClaimedOrder) :
        Configured(ClaimedOrder[i]) /\ ~Passes(ClaimedOrder[i], Coerced, BoundOf(ClaimedOrder[i])) }

First(S) == CHOOSE i \in S : \A j \in S : i <= j

\* C3: when the coerced value violates at least one configured predicate, the
\* error returned is that of the earliest violated predicate in the order
\* multiple_of, le, lt, ge, gt, and the predicates evaluated are exactly the
\* configured ones up to and including that one, in that order.
C3_FirstViolatedPredicateWins ==
    (last.op = "ConstrainedIntValidator" /\ Coercion.ok # None /\ Violations # {}) =>
        /\ last.result.err # None
        /\ unwrap(last.result.err).kind = KindOf(ClaimedOrder[First(Violations)])
        /\ SubSeq(last.calls, 3, Len(last.calls)) =
              SelectSeq(SubSeq(ClaimedOrder, 1, First(Violations)), Configured)

\* lt and ge are both violated and the LessThan error is the one returned.
C3_Witness ==
    /\ last.op = "ConstrainedIntValidator"
    /\ Coercion.ok # None
    /\ {3, 4} \subseteq Violations
    /\ unwrap(last.result.err).kind = "LessThan"

\* C4: when coercion succeeds with v, validate returns Ok(v) if every configured
\* predicate passes and an error otherwise (multiple_of(m): m divides v; le, ge
\* inclusive; lt, gt exclusive; an absent bound imposes nothing).
C4_OkIffAllPredicatesPass ==
    (last.op = "ConstrainedIntValidator" /\ Coercion.ok # None) =>
        IF Violations = {}
        THEN last.result = Ok(Coerced)
        ELSE last.result.ok = None

\* A negative value equal to its le and ge bounds is returned.
C4_Witness ==
    /\ last.op = "ConstrainedIntValidator"
    /\ Coercion.ok # None
    /\ Coerced < 0
    /\ Configured("le") /\ BoundOf("le") = Coerced
    /\ Configured("ge") /\ BoundOf("ge") = Coerced
    /\ last.result = Ok(Coerced)

\* C5: both validators call validate_int with the call-site strict value
\* whenever extra.strict is set, and with their own strict field otherwise.
C5_CallSiteStrictWins ==
    Validated =>
        last.strict_arg = IF extra.strict # None THEN unwrap(extra.strict) ELSE last.self.strict

\* A strict validator is called with a call-site strict = false.
C5_Witness ==
    /\ last.op = "IntValidator"
    /\ last.self.strict
    /\ extra.strict = Some(FALSE)
    /\ last.strict_arg = FALSE

\* C6 as stated: a validator built with strict = true calls validate_int with
\* strict = true whatever the call-site override is.
C6_Original ==
    (Validated /\ last.self.strict) => last.strict_arg = TRUE

\* C6 amended: a validator built with strict = true calls validate_int with
\* strict = true when the call-site override is unset or true, and with
\* strict = false when the call-site override is false.
C6_StrictSchemaUnlessOverridden ==
    (Validated /\ last.self.strict) => last.strict_arg = (extra.strict # Some(FALSE))

\* A strict constrained validator runs with no call-site override.
C6_Witness ==
    /\ last.op = "ConstrainedIntValidator"
    /\ last.self.strict
    /\ extra.strict = None
    /\ last.strict_arg = TRUE

\* ---- claims about the iterator (SpecIter)
\* Positions of the yielded triples whose is_last flag is set.
Flagged == { i \in 1..Len(yielded) : yielded[i][2] }

\* C7: over a finite sequence at most one yielded triple has is_last set; the
\* flag of a triple is set exactly when partial mode is active and its item is
\* the final item of the underlying sequence, so it is never set when partial
\* mode is off.
C7_LastFlagOnlyOnFinalItemInPartialMode ==
    /\ Cardinality(Flagged) <= 1
    /\ \A i \in 1..Len(yielded) :
          yielded[i][2] = (allow_partial # "Off" /\ i = Len(source))

\* A sequence of several items has been iterated to its end in partial mode.
C7_Witness ==
    /\ allow_partial = "TrailingStrings"
    /\ Len(source) >= 2
    /\ Len(yielded) = Len(source)
    /\ Flagged = {Len(source)}

\* ---- claims about exactness (SpecExactness)
\* Levels in the order Lax < Strict < Exact < None.
Rank(level) == IF level = None THEN Cardinality(Exactness) ELSE ExactnessOrd(unwrap(level))

\* C8: no floor_exactness call and no validate call of either integer validator
\* leaves state.exactness higher, in the order Lax < Strict < Exact < None, than
\* it was before the call.
C8_ExactnessNeverRaised ==
    [][last'.op \in ValidatorOps \cup {"floor_exactness"} =>
          Rank(exactness') <= Rank(exactness)]_vars

\* A constrained validation has lowered a level that started at Exact.
C8_Witness ==
    /\ last.op = "ConstrainedIntValidator"
    /\ last.pre_exactness = Some("Exact")
    /\ exactness = Some("Lax")

\* ---- more claims about one validation (SpecInt)
\* C9: in both validators, once coercion succeeds the match's exactness is
\* floored into the state (unpack) right after validate_int and before any
\* constraint is evaluated, so the state is floored also when validate returns
\* a constraint error.
C9_ExactnessRecordedBeforeConstraints ==
    (Validated /\ Coercion.ok # None) =>
        /\ Len(last.calls) >= 2
        /\ last.calls[1] = "validate_int"
        /\ last.calls[2] = "unpack"
        /\ \A i \in 3..Len(last.calls) : last.calls[i] \in { ClaimedOrder[j] : j \in 1..Len(ClaimedOrder) }
        /\ exactness = floor_exactness(last.pre_exactness, unwrap(Coercion.ok).exactness)

\* A lax match that fails a constraint has lowered the level from Exact to Lax.
C9_Witness ==
    /\ last.op = "ConstrainedIntValidator"
    /\ last.result.err # None
    /\ unwrap(last.result.err).kind \in ConstraintKinds
    /\ last.pre_exactness = Some("Exact")
    /\ exactness = Some("Lax")

\* C10: when the input's validate_int returns an error, both validators return
\* exactly that error: no success value, no constraint error in its place, and
\* no constraint predicate evaluated.
C10_CoercionErrorSurfacedUnchanged ==
    (Validated /\ Coercion.err # None) =>
        /\ last.result.ok = None
        /\ last.result.err = Some([kind |-> unwrap(Coercion.err), bound |-> None,
                                   context |-> None, input |-> last.input])
        /\ unwrap(last.result.err).kind \notin ConstraintKinds
        /\ last.calls = <<"validate_int">>

\* A string is refused in strict mode by a validator whose bounds it violates.
C10_Witness ==
    /\ last.op = "ConstrainedIntValidator"
    /\ last.input.shape = "str"
    /\ Configured("ge") /\ last.input.val < BoundOf("ge")
    /\ last.result.err # None
    /\ unwrap(last.result.err).kind = "int_type"
\* ---------------------------------------------------------------- build
\* A schema or config dictionary maps each key to None (absent) or Some(value).
ConstraintKeys == {"multiple_of", "le", "lt", "ge", "gt"}

\* Bounds a schema may carry: the validators' bounds and the zero bound.
SchemaBounds == BoundValues \cup {0}

Schemas ==
    [strict : OptionOf(BOOLEAN),
     multiple_of : OptionOf(Multiples),
     le : OptionOf(SchemaBounds),
     lt : OptionOf(SchemaBounds),
     ge : OptionOf(SchemaBounds),
     gt : OptionOf(SchemaBounds)]

\* config: Option<&PyDict>, of which only strict is read
Configs == OptionOf([strict : OptionOf(BOOLEAN)])

\* PyDict::get_item(key)
get_item(dict, key) == dict[key]

\* SchemaDict::get_as::<Int>(key)
get_as(schema, key) ==
    IF get_item(schema, key) = None THEN None ELSE Some(IntOf(unwrap(get_item(schema, key))))

\* build_tools::is_strict(schema, config): schema.strict, else the config's, else false
is_strict(schema, config) ==
    IF get_item(schema, "strict") # None THEN unwrap(get_item(schema, "strict"))
    ELSE IF config # None /\ get_item(unwrap(config), "strict") # None
         THEN unwrap(get_item(unwrap(config), "strict"))
         ELSE FALSE

\* ConstrainedIntValidator::build
ConstrainedIntValidator_build(schema, config) ==
    [name |-> "constrained-int",
     validator |-> [strict |-> is_strict(schema, config),
                    multiple_of |-> get_as(schema, "multiple_of"),
                    le |-> get_as(schema, "le"),
                    lt |-> get_as(schema, "lt"),
                    ge |-> get_as(schema, "ge"),
                    gt |-> get_as(schema, "gt")]]

\* Variant: a key counts only when its value is truthy.
IntValidator_build_truthy(schema, config) ==
    LET use_constrained ==
            \/ get_item(schema, "multiple_of") \notin {None, Some(0)}
            \/ get_item(schema, "le") \notin {None, Some(0)}
            \/ get_item(schema, "lt") \notin {None, Some(0)}
            \/ get_item(schema, "ge") \notin {None, Some(0)}
            \/ get_item(schema, "gt") \notin {None, Some(0)}
    IN  IF use_constrained
        THEN ConstrainedIntValidator_build(schema, config)
        ELSE [name |-> "int", validator |-> [strict |-> is_strict(schema, config)]]

\* IntValidator::build
IntValidator_build(schema, config) ==
    LET use_constrained ==
            \/ get_item(schema, "multiple_of") # None
            \/ get_item(schema, "le") # None
            \/ get_item(schema, "lt") # None
            \/ get_item(schema, "ge") # None
            \/ get_item(schema, "gt") # None
    IN  IF use_constrained
        THEN ConstrainedIntValidator_build(schema, config)
        ELSE [name |-> "int", validator |-> [strict |-> is_strict(schema, config)]]

\* IntValidator::build(schema, config, definitions)
Build(schema, config) ==
    /\ last' = [op |-> "build", schema |-> schema, config |-> config,
                built |-> IntValidator_build(schema, config)]
    /\ UNCHANGED <<added, extra, exactness, fields_set_count, allow_partial, handles, scopes,
                   exactness_history, iter_vars>>

\* Building a validator from each schema and config.
InitBuild == new([strict |-> None, by_alias |-> None, by_name |-> None], "Off")

NextBuild ==
    \E schema \in Schemas, config \in Configs : last.op = "none" /\ Build(schema, config)

SpecBuild == InitBuild /\ [][NextBuild]_vars

\* C11: build gives a ConstrainedIntValidator exactly when at least one of the
\* keys multiple_of, le, lt, ge, gt is present in the schema and an IntValidator
\* otherwise, whatever the keys are mapped to: a key mapped to 0 counts.
C11_ConstrainedIffAnyKeyPresent ==
    last.op = "build" =>
        LET present == { k \in ConstraintKeys : last.schema[k] # None }
        IN  /\ last.built.name \in {"int", "constrained-int"}
            /\ (last.built.name = "constrained-int") <=> (present # {})
            /\ (last.built.name = "int") <=> (present = {})

\* The only constraint key present is le, mapped to 0.
C11_Witness ==
    /\ last.op = "build"
    /\ last.schema.le = Some(0)
    /\ \A k \in ConstraintKeys \ {"le"} : last.schema[k] = None
    /\ last.built.name = "constrained-int"
\* C12: every constraint error returned by ConstrainedIntValidator::validate has
\* the kind of a configured predicate that the coerced value violates, carries
\* the bound configured for that predicate, has no context and refers to the
\* input that was validated.
C12_ConstraintErrorNamesViolatedBound ==
    (last.op = "ConstrainedIntValidator" /\ last.result.err # None
        /\ unwrap(last.result.err).kind \in ConstraintKinds) =>
        LET e == unwrap(last.result.err)
        IN  /\ Coercion.ok # None
            /\ \E i \in Violations :
                  /\ e.kind = KindOf(ClaimedOrder[i])
                  /\ e.bound = Some(BoundOf(ClaimedOrder[i]))
            /\ e.context = None
            /\ e.input = last.input

\* A GreaterThan error carries the gt bound while le is configured with another.
C12_Witness ==
    /\ last.op = "ConstrainedIntValidator"
    /\ last.result.err # None
    /\ unwrap(last.result.err).kind = "GreaterThan"
    /\ Configured("le") /\ Configured("gt") /\ BoundOf("le") # BoundOf("gt")
    /\ unwrap(last.result.err).bound = Some(BoundOf("gt"))
    /\ last.input.shape = "str"
\* The state used through rebinding handles: a caller starts exactness tracking
\* outside the scopes; inside them the state is floored, counted and switched
\* through the innermost handle.
HandleClosures == { f \in Closures : f.field = "strict" /\ f.value # None }

NextHandle ==
    \/ handles = <<>> /\ SetExactness(Some("Exact"))
    \/ \E f \in HandleClosures : RebindExtra(f)
    \/ DropHandle
    \/ \E obs \in Exactness : handles # <<>> /\ FloorExactness(obs)
    \/ \E n \in 0..MaxFields : handles # <<>> /\ AddFieldsSet(n)
    \/ \E mode \in PartialMode : handles # <<>> /\ SetAllowPartial(mode)

SpecHandle == Init /\ [][NextHandle]_vars

\* C13: fields_set_count is None until the first add_fields_set call and from
\* then on Some of the sum of the numbers handed to add_fields_set, so that a
\* single add_fields_set(0) turns None into Some(0).
C13_FieldsSetCountIsLazySum ==
    fields_set_count = IF added.called THEN Some(added.total) ELSE None

\* The only call so far was add_fields_set(0).
C13_Witness ==
    /\ last.op = "add_fields_set"
    /\ last.n = 0
    /\ added.total = 0
    /\ fields_set_count = Some(0)
\* ------------------------------------------------------- alias / name lookup
\* Option::or
Option_or(a, b) == IF a # None THEN a ELSE b

\* Variant: the default given by the validator wins over the call-site value.
validate_by_alias_or_default_first(ex, default) ==
    unwrap_or(Option_or(default, ex.by_alias), TRUE)

\* ValidationState::validate_by_alias_or
validate_by_alias_or(ex, default) == unwrap_or(Option_or(ex.by_alias, default), TRUE)

\* ValidationState::validate_by_name_or
validate_by_name_or(ex, default) == unwrap_or(Option_or(ex.by_name, default), FALSE)

ValidateByAliasOr(default) ==
    /\ last' = [op |-> "validate_by_alias_or", default |-> default,
                result |-> validate_by_alias_or(extra, default)]
    /\ UNCHANGED <<added, extra, exactness, fields_set_count, allow_partial, handles, scopes,
                   exactness_history, iter_vars>>

ValidateByNameOr(default) ==
    /\ last' = [op |-> "validate_by_name_or", default |-> default,
                result |-> validate_by_name_or(extra, default)]
    /\ UNCHANGED <<added, extra, exactness, fields_set_count, allow_partial, handles, scopes,
                   exactness_history, iter_vars>>

\* Lookups on states built around every possible Extra.
InitLookup == \E ex \in Extra : new(ex, "Off")

NextLookup ==
    \/ \E default \in OptionOf(BOOLEAN) : ValidateByAliasOr(default)
    \/ \E default \in OptionOf(BOOLEAN) : ValidateByNameOr(default)

SpecLookup == InitLookup /\ [][NextLookup]_vars

\* C14: validate_by_alias_or(default) is extra.by_alias when set, else default
\* when given, else true; validate_by_name_or(default) is extra.by_name when
\* set, else default when given, else false.
C14_CallSiteThenDefaultThenFallback ==
    /\ last.op = "validate_by_alias_or" =>
          last.result = IF extra.by_alias # None THEN unwrap(extra.by_alias)
                        ELSE IF last.default # None THEN unwrap(last.default)
                        ELSE TRUE
    /\ last.op = "validate_by_name_or" =>
          last.result = IF extra.by_name # None THEN unwrap(extra.by_name)
                        ELSE IF last.default # None THEN unwrap(last.default)
                        ELSE FALSE

\* The call-site value and the default disagree, and the call-site value is returned.
C14_Witness ==
    /\ last.op = "validate_by_alias_or"
    /\ extra.by_alias = Some(FALSE)
    /\ last.default = Some(TRUE)
    /\ last.result = FALSE
\* C16: what was changed through a handle (exactness by floor_exactness,
\* fields_set_count by add_fields_set, allow_partial by assignment) is in the
\* underlying state, and the handle's drop leaves all three as they were.
C16_DropRestoresOnlyExtra ==
    last.op = "drop" =>
        /\ exactness = last.before.exactness
        /\ fields_set_count = last.before.fields_set_count
        /\ allow_partial = last.before.allow_partial

\* The outermost scope has exited after exactness was floored, a field was
\* counted and allow_partial was switched inside a scope, and extra was rebound.
C16_Witness ==
    /\ last.op = "drop"
    /\ last.depth = 1
    /\ last.before.extra # extra
    /\ exactness = Some("Lax")
    /\ fields_set_count = Some(1)
    /\ allow_partial # "Off"
\* ---- claims about the iterator's items (SpecIter)
\* C17: over a finite sequence of n items the iterator yields exactly n triples,
\* the i-th (from 0) with index i and the i-th item of the sequence, none
\* dropped or duplicated, and only then returns None; over an empty sequence it
\* yields nothing.
C17_YieldsEveryItemOnceInOrder ==
    /\ Len(yielded) <= Len(source)
    /\ \A i \in 1..Len(yielded) : yielded[i][1] = i - 1 /\ yielded[i][3] = source[i]
    /\ last.op = "next" =>
          IF last.item = None
          THEN Len(yielded) = Len(source)
          ELSE last.item = Some(yielded[Len(yielded)])

\* A sequence of different items has been yielded whole and next has returned None.
C17_Witness ==
    /\ last.op = "next"
    /\ last.item = None
    /\ Len(source) = MaxLen
    /\ source[1] # source[2]
    /\ Len(yielded) = MaxLen
\* ---- more claims about exactness (SpecExactness)
\* C18: a state that is not tracking exactness (None) is still not tracking
\* after any floor_exactness call and any validation by either integer
\* validator, and a state at Some(Lax) stays at Some(Lax).
C18_UntrackedAndLaxAreFixed ==
    [][last'.op \in ValidatorOps \cup {"floor_exactness"} =>
          /\ exactness = None => exactness' = None
          /\ exactness = Some("Lax") => exactness' = Some("Lax")]_vars

\* A validation has succeeded on a state that was not tracking, and it still is not.
C18_Witness ==
    /\ last.op = "IntValidator"
    /\ last.result.err = None
    /\ last.pre_exactness = None
    /\ exactness = None
\* ---------------------------------------------------------------- validation on any state
\* Validations on a state in which every field has been set before: exactness
\* by a caller, fields_set_count by earlier add_fields_set calls, allow_partial
\* at construction.
InitFrame ==
    /\ extra \in InitialExtras
    /\ exactness \in OptionOf(Exactness)
    /\ fields_set_count \in OptionOf(0..MaxFields)
    /\ allow_partial \in PartialMode
    /\ handles = <<>>
    /\ elp = None
    /\ source = <<>>
    /\ scopes = <<>>
    /\ start_exactness = exactness
    /\ observed = {}
    /\ yielded = <<>>
    /\ added = [called |-> fields_set_count # None, total |-> unwrap_or(fields_set_count, 0)]
    /\ last = NoCall

NextFrame ==
    \/ \E self \in IntValidators, input \in ScopeInputs : ValidateInt(self, input)
    \/ \E self \in ScopeValidators, input \in ScopeInputs : ValidateConstrainedInt(self, input)

SpecFrame == InitFrame /\ [][NextFrame]_vars

\* C19: a validate call of either integer validator leaves extra,
\* fields_set_count and allow_partial as they were, whether it succeeds or
\* fails; and when the coercion itself fails it leaves exactness as it was too.
C19_ValidateChangesOnlyExactness ==
    [][last'.op \in ValidatorOps =>
          /\ extra' = extra
          /\ fields_set_count' = fields_set_count
          /\ allow_partial' = allow_partial
          /\ validate_int(last'.input, last'.strict_arg).err # None =>
                exactness' = exactness]_vars

\* A coercion has failed on a state that tracks exactness and has counted fields.
C19_Witness ==
    /\ last.op = "ConstrainedIntValidator"
    /\ validate_int(last.input, last.strict_arg).err # None
    /\ last.pre_exactness = Some("Exact")
    /\ exactness = Some("Exact")
    /\ fields_set_count = Some(1)
    /\ allow_partial = "On"
    /\ extra.strict = Some(TRUE)
\* The number of triples next() will still yield (C17: one per item of the sequence).
StillToYield == Len(source) - Len(yielded)

\* C20: whenever size_hint is asked, its lower bound is not greater and its
\* upper bound is not smaller than the number of triples still to be yielded,
\* the item held in the lookahead slot included.
C20_SizeHintBracketsRemaining ==
    last.op = "size_hint" =>
        /\ last.hint[1] <= StillToYield
        /\ last.hint[2] # None => unwrap(last.hint[2]) >= StillToYield
====
